---- MODULE Spec2Model ----
(***************************************************************************)
(* Model of titra's server method helpers                                  *)
(* (imports/utils/server_method_helpers.js): the project scope resolvers,  *)
(* the authentication gates and the method mixins, the four report query   *)
(* builders and the working time mapper.                                   *)
(*                                                                         *)
(* Conventions.  A JavaScript string is a tuple of one-character strings   *)
(* ("all" is <<"a","l","l">>), so that String.prototype.includes is the    *)
(* substring test it is in the source.  A value that may be a string or an *)
(* array is a record [kind, val].  A document or object literal is a       *)
(* function from its field names; an absent field is absent from DOMAIN.   *)
(* A string the code only compares whole (a sort order, a state) is a      *)
(* TLA+ string.                                                            *)
(* Mongo operators lose their dollar sign ($in is in, $match is match).    *)
(* The order of a fetched id list is the store's; lists of ids are sets.   *)
(***************************************************************************)
EXTENDS Integers, Sequences, FiniteSets, TLC

VARIABLES
  Projects,        \* the Projects collection: a set of project documents
  users,           \* the Meteor.users collection: a set of user documents
  Globalsettings,  \* the Globalsettings collection: a set of {name, value} documents
  userId,          \* Meteor.userId() of the connection the helpers run on
  ret,             \* the last helper call: its name, arguments and outcome
  request,         \* the caller-owned request object of the detailed entries builder
  method,          \* the invocation of a wrapped method: position, context, events
  Transactions     \* the Transactions collection (audit records), in insertion order

vars == <<Projects, users, Globalsettings, userId, ret, request, method, Transactions>>

-----------------------------------------------------------------------------
(* Bounds *)

\* longest array handed in as a projectId / customer selector
MaxArrayLen == 2

-----------------------------------------------------------------------------
(* JavaScript values *)

Empty == [k \in {} |-> TRUE]

ALL == <<"a", "l", "l">>
P1 == <<"p", "1">>
P2 == <<"p", "2">>
PBall == <<"b", "a", "l", "l">>
U1 == <<"u", "1">>
U2 == <<"u", "2">>
C1 == <<"c", "1">>
C2 == <<"c", "2">>

Str(s) == [kind |-> "string", val |-> s]
Arr(a) == [kind |-> "array", val |-> a]

\* String.prototype.includes(sub)
StrIncludes(s, sub) ==
  \E i \in 1..(Len(s) - Len(sub) + 1) : SubSeq(s, i, i + Len(sub) - 1) = sub

\* Array.prototype.includes(x)
ArrIncludes(a, x) == \E i \in DOMAIN a : a[i] = x

\* v.includes(x) for v a string or an array of strings
Includes(v, x) ==
  IF v.kind = "array" THEN ArrIncludes(v.val, x) ELSE StrIncludes(v.val, x)

Has(doc, field) == field \in DOMAIN doc

\* all arrays of at most n elements of S
ArraysOf(S, n) == UNION { [1..k -> S] : k \in 0..n }

-----------------------------------------------------------------------------
(* ProjectScopeResolver *)

\* { $or: [{ userId }, { public: true }, { team: userId }] }
MatchesAccess(doc, uid) ==
  \/ Has(doc, "userId") /\ doc.userId = uid
  \/ Has(doc, "public") /\ doc.public = TRUE
  \/ Has(doc, "team") /\ uid \in doc.team

\* { $or: [{ archived: false }, { archived: { $exists: false } }] }
MatchesNotArchived(doc) ==
  \/ Has(doc, "archived") /\ doc.archived = FALSE
  \/ ~Has(doc, "archived")

\* { field: v } for v a string, rewritten to { field: { $in: v } } for v an array
MatchesField(doc, field, v) ==
  /\ Has(doc, field)
  /\ IF v.kind = "array" THEN ArrIncludes(v.val, doc[field]) ELSE doc[field] = v.val

MutGetProjectListById(projectId) ==
  IF Includes(projectId, ALL)
    THEN { d._id : d \in { p \in Projects :
             MatchesAccess(p, userId) /\ MatchesNotArchived(p) } }
    ELSE { d._id : d \in { p \in Projects : MatchesField(p, "_id", projectId) } }

getProjectListById(projectId) ==
  IF Includes(projectId, ALL)
    THEN { d._id : d \in { p \in Projects :
             MatchesAccess(p, userId) /\ MatchesNotArchived(p) } }
    ELSE { d._id : d \in { p \in Projects :
             /\ MatchesField(p, "_id", projectId)
             /\ MatchesAccess(p, userId)
             /\ MatchesNotArchived(p) } }

\* the cursor's documents; callers fetch() it and map to _id
getProjectListByCustomer(customer) ==
  IF Includes(customer, ALL)
    THEN { p \in Projects : MatchesAccess(p, userId) /\ MatchesNotArchived(p) }
    ELSE { p \in Projects :
             /\ MatchesField(p, "customer", customer)
             /\ MatchesAccess(p, userId)
             /\ MatchesNotArchived(p) }

\* getProjectListByCustomer(customer).fetch().map((value) => value._id)
CustomerProjectIds(customer) == { p._id : p \in getProjectListByCustomer(customer) }

-----------------------------------------------------------------------------
(* Collections the helpers read *)

UserIds == {U1, U2}

Optional(field, values) == {Empty} \cup { (field :> v) : v \in values }

\* the documents a project with this _id may be
ProjectDocs(id, customers) ==
  { [_id |-> id, userId |-> o] @@ pub @@ team @@ arch @@ cust :
      o \in UserIds,
      pub \in Optional("public", {TRUE, FALSE}),
      team \in Optional("team", {{U1}}),
      arch \in Optional("archived", {TRUE, FALSE}),
      cust \in customers }

\* p1 (of customer c1) and p2 (of c1 or of no customer), each there or not
ProjectCollections ==
  { a \cup b :
      a \in {{}} \cup { {d} : d \in ProjectDocs(P1, {"customer" :> C1}) },
      b \in {{}} \cup { {d} : d \in ProjectDocs(P2, Optional("customer", {C1})) } }

NoMethod == [pc |-> "idle"]
NoRequest == Empty

ProjectIdSelectors ==
  { Str(s) : s \in {ALL, P1, P2, PBall} }
    \cup { Arr(a) : a \in ArraysOf({P1, P2, ALL}, MaxArrayLen) }

CustomerSelectors ==
  { Str(s) : s \in {ALL, C1, C2} }
    \cup { Arr(a) : a \in ArraysOf({C1, C2}, MaxArrayLen) }

-----------------------------------------------------------------------------
(* SpecScope: the scope resolvers called on any project collection *)

InitScope ==
  /\ Projects \in ProjectCollections
  /\ userId \in UserIds
  /\ users = {}
  /\ Globalsettings = {}
  /\ ret = [op |-> "none"]
  /\ request = NoRequest
  /\ method = NoMethod
  /\ Transactions = <<>>

CallGetProjectListById ==
  \E projectId \in ProjectIdSelectors :
    /\ ret' = [op |-> "getProjectListById", projectId |-> projectId,
               threw |-> FALSE, out |-> getProjectListById(projectId)]
    /\ UNCHANGED <<Projects, users, Globalsettings, userId, request, method, Transactions>>

CallGetProjectListByCustomer ==
  \E customer \in CustomerSelectors :
    /\ ret' = [op |-> "getProjectListByCustomer", customer |-> customer,
               threw |-> FALSE, out |-> CustomerProjectIds(customer)]
    /\ UNCHANGED <<Projects, users, Globalsettings, userId, request, method, Transactions>>

NextScope == CallGetProjectListById \/ CallGetProjectListByCustomer

SpecScope == InitScope /\ [][NextScope]_vars

-----------------------------------------------------------------------------
(* C1 *)

ProjectById(id) == CHOOSE p \in Projects : p._id = id

OwnedBy(p, u) == Has(p, "userId") /\ p.userId = u
IsPublic(p) == Has(p, "public") /\ p.public
InTeam(p, u) == Has(p, "team") /\ u \in p.team
IsArchived(p) == Has(p, "archived") /\ p.archived

RequestedIds(projectId) ==
  IF projectId.kind = "array"
    THEN { projectId.val[i] : i \in DOMAIN projectId.val }
    ELSE { projectId.val }

-----------------------------------------------------------------------------
(* AuthorizationGate *)

\* a falsy this.userId (null on a connection that is not logged in)
Null == <<>>
Falsy(v) == v = Null

U3 == <<"u", "3">>

AuthError == "notifications.auth_error_method"
TypeError == "TypeError"
Resolved == "resolved"

\* Meteor.users.findOneAsync({ _id }): the documents found, none (undefined) or one
FindUser(id) == { u \in users : u._id = id }

\* meteorUser?.field as a condition, meteorUser being found or undefined
OptTruthy(found, field) == \E u \in found : Has(u, field) /\ u[field] = TRUE

\* how the promise of checkAuthentication(context) settles
checkAuthentication(context) ==
  LET meteorUser == FindUser(context.userId) IN
    IF Falsy(context.userId) \/ OptTruthy(meteorUser, "inactive")
      THEN AuthError
      ELSE Resolved

\* how the promise of checkAdminAuthentication(context) settles; meteorUser.isAdmin
\* of an undefined meteorUser is a TypeError
checkAdminAuthentication(context) ==
  LET meteorUser == FindUser(context.userId) IN
    IF Falsy(context.userId) \/ OptTruthy(meteorUser, "inactive")
      THEN AuthError
      ELSE IF meteorUser = {}
        THEN TypeError
        ELSE IF ~OptTruthy(meteorUser, "isAdmin") THEN AuthError ELSE Resolved

\* the gate a mixin awaits
Gate(mixin, context) ==
  IF mixin = "authenticationMixin"
    THEN checkAuthentication(context)
    ELSE checkAdminAuthentication(context)

Mixins == {"authenticationMixin", "adminAuthenticationMixin"}

\* a missing await: runFunc is called while the check is still pending
MutBodyMayStart(m) ==
  /\ m.pc \in {"awaitCheck", "checked"}
  /\ m.body = "notStarted"

\* `await check(this)` then `return runFunc.call(this, args)`: the body is called
\* only once the awaited check has resolved
BodyMayStart(m) ==
  /\ m.pc = "checked"
  /\ m.check = Resolved
  /\ m.body = "notStarted"

UserDocs(id) ==
  { [_id |-> id] @@ adm @@ ina :
      adm \in Optional("isAdmin", {TRUE, FALSE}),
      ina \in Optional("inactive", {TRUE, FALSE}) }

\* u1 and u2, each known or not; u3 is never known
UserCollections ==
  { a \cup b :
      a \in {{}} \cup { {d} : d \in UserDocs(U1) },
      b \in {{}} \cup { {d} : d \in UserDocs(U2) } }

Contexts == { [userId |-> id] : id \in {Null, U1, U2, U3} }

-----------------------------------------------------------------------------
(* SpecAuth: the gates called directly, and methods wrapped by the two      *)
(* authentication mixins, one invocation at a time, step by step            *)

InitAuth ==
  /\ Projects = {}
  /\ userId = Null
  /\ users \in UserCollections
  /\ Globalsettings = {}
  /\ ret = [op |-> "none"]
  /\ request = NoRequest
  /\ method = NoMethod
  /\ Transactions = <<>>

CallCheckAuthentication ==
  \E context \in Contexts :
    /\ ret' = [op |-> "checkAuthentication", context |-> context,
               outcome |-> checkAuthentication(context)]
    /\ UNCHANGED <<Projects, users, Globalsettings, userId, request, method, Transactions>>

CallCheckAdminAuthentication ==
  \E context \in Contexts :
    /\ ret' = [op |-> "checkAdminAuthentication", context |-> context,
               outcome |-> checkAdminAuthentication(context)]
    /\ UNCHANGED <<Projects, users, Globalsettings, userId, request, method, Transactions>>

\* methodOptions.run(args) is called: it calls the check and awaits it
Invoke ==
  /\ method.pc = "idle"
  /\ \E mixin \in Mixins, context \in Contexts :
       method' = [pc |-> "awaitCheck", mixin |-> mixin, context |-> context,
                  check |-> "pending", body |-> "notStarted",
                  events |-> <<"check:start">>]
  /\ UNCHANGED <<Projects, users, Globalsettings, userId, ret, request, Transactions>>

\* the awaited check settles: it resolves or it throws
CheckSettles ==
  /\ method.pc = "awaitCheck"
  /\ LET outcome == Gate(method.mixin, method.context) IN
       method' = [method EXCEPT
         !.check = outcome,
         !.pc = IF outcome = Resolved THEN "checked" ELSE "rejected",
         !.events = Append(@, IF outcome = Resolved THEN "check:resolved"
                                                     ELSE "check:threw")]
  /\ UNCHANGED <<Projects, users, Globalsettings, userId, ret, request, Transactions>>

\* runFunc.call(this, args)
StartBody ==
  /\ BodyMayStart(method)
  /\ method' = [method EXCEPT !.body = "running",
                              !.events = Append(@, "body:start")]
  /\ UNCHANGED <<Projects, users, Globalsettings, userId, ret, request, Transactions>>

\* the wrapped body returns, and with it the wrapper
FinishBody ==
  /\ method.pc = "checked"
  /\ method.body = "running"
  /\ method' = [method EXCEPT !.body = "done", !.pc = "returned",
                              !.events = Append(@, "body:end")]
  /\ UNCHANGED <<Projects, users, Globalsettings, userId, ret, request, Transactions>>

\* the caller has its result or its error; the next invocation may come
Settle ==
  /\ method.pc \in {"returned", "rejected"}
  /\ method' = NoMethod
  /\ UNCHANGED <<Projects, users, Globalsettings, userId, ret, request, Transactions>>

NextAuth ==
  \/ CallCheckAuthentication
  \/ CallCheckAdminAuthentication
  \/ Invoke
  \/ CheckSettles
  \/ StartBody
  \/ FinishBody
  \/ Settle

SpecAuth == InitAuth /\ [][NextAuth]_vars

-----------------------------------------------------------------------------
(* C2 *)

Started(m) == Has(m, "events")
EventAt(m, e) == { i \in DOMAIN m.events : m.events[i] = e }

\* C2: in an invocation of a method wrapped by authenticationMixin or
\* adminAuthenticationMixin, the body starts only after the check has run to
\* completion and resolved, and once the check has thrown no step of the body occurs.
C2_GateBeforeBody ==
  Started(method) =>
    /\ \A i \in EventAt(method, "body:start") :
         \E j \in EventAt(method, "check:resolved") : j < i
    /\ EventAt(method, "check:threw") # {} =>
         /\ method.body = "notStarted"
         /\ EventAt(method, "body:start") = {}
         /\ ~ENABLED StartBody

\* a check that threw, with the invocation rejected and its body untouched
C2_Witness ==
  /\ Started(method)
  /\ method.pc = "rejected"
  /\ method.check = AuthError
  /\ method.body = "notStarted"

-----------------------------------------------------------------------------
(* C3, C4 *)

Known(context) == \E u \in users : u._id = context.userId
Inactive(context) == \E u \in users : u._id = context.userId /\ Has(u, "inactive") /\ u.inactive
Admin(context) == \E u \in users : u._id = context.userId /\ Has(u, "isAdmin") /\ u.isAdmin
Absent(context) == context.userId = Null

\* C3: checkAuthentication fails with the auth error when the actor is absent,
\* unknown or inactive, and succeeds only for a known, active actor.
C3_AuthFailsUnlessKnownActive ==
  ret.op = "checkAuthentication" =>
    IF ~Absent(ret.context) /\ Known(ret.context) /\ ~Inactive(ret.context)
      THEN ret.outcome = Resolved
      ELSE ret.outcome = AuthError

\* C4: checkAdminAuthentication succeeds only for a present, known, active admin,
\* and fails with the auth error, and no other error, in every other case.
C4_AdminFailsWithAuthErrorOnly ==
  ret.op = "checkAdminAuthentication" =>
    IF /\ ~Absent(ret.context) /\ Known(ret.context)
       /\ ~Inactive(ret.context) /\ Admin(ret.context)
      THEN ret.outcome = Resolved
      ELSE ret.outcome = AuthError

-----------------------------------------------------------------------------
(* ReportQueryBuilder *)

CUSTOM == <<"c", "u", "s", "t", "o", "m">>
LastWeek == <<"l", "a", "s", "t", "W", "e", "e", "k">>

\* JavaScript truthiness of a string or null (Null stands for null, undefined, '')
\* and of a number (0 also stands for an argument that is not given)
Truthy(v) == v # Null
TruthyNum(n) == n # 0

\* periodToDates(period) of ./periodHelpers.js: the bounds of a named period, as
\* day numbers; a token it does not know is an InvalidPeriod failure
PeriodTable == (LastWeek :> [startDate |-> 10, endDate |-> 16])
KnownPeriod(period) == period \in DOMAIN PeriodTable
periodToDates(period) == PeriodTable[period]

\* a missing "- 1": the first page skips a page
MutSkipOf(page, limit) == page * limit

\* (page - 1) * limit
SkipOf(page, limit) == (page - 1) * limit

\* const skipSelector = { $skip: 0 }; if (page) { skipSelector.$skip = (page - 1) * limit }
SkipSelector(page, limit) ==
  [skip |-> IF TruthyNum(page) THEN SkipOf(page, limit) ELSE 0]

LimitStages(limit) == IF limit > 0 THEN << [limit |-> limit] >> ELSE << >>

DateClause(startDate, endDate) == [gte |-> startDate, lte |-> endDate]

\* the $match stage with the project scope, and the date and user clauses asked for
MatchSelector(projectList, withDate, date, withUser, user) ==
  [match |-> [projectId |-> [in |-> projectList]]
             @@ (IF withDate THEN "date" :> date ELSE Empty)
             @@ (IF withUser THEN "userId" :> user ELSE Empty)]

\* the outcome of a builder call
Returns(out, calls) == [threw |-> "no", out |-> out, periodToDatesCalls |-> calls]
Throws(error, calls) == [threw |-> error, periodToDatesCalls |-> calls]

buildTotalHoursForPeriodSelector(projectId, period, dates, user, customer, limit, page) ==
  LET addFields == [addFields |-> [convertedHours |-> [toDecimal |-> "$hours"]]]
      groupSelector == [group |-> [_id |-> [userId |-> "$userId", projectId |-> "$projectId"],
                                   totalHours |-> [sum |-> "$convertedHours"]]]
      sortSelector == [sort |-> [date |-> -1]]
      skipSelector == SkipSelector(page, limit)
      projectList == IF ~Includes(customer, ALL)
                       THEN CustomerProjectIds(customer)
                       ELSE getProjectListById(projectId)
      pipeline(matchSelector) ==
        <<addFields, matchSelector, groupSelector, sortSelector, skipSelector>>
          \o LimitStages(limit)
  IN
    IF Truthy(period) /\ StrIncludes(period, CUSTOM)
      THEN Returns(pipeline(MatchSelector(projectList, TRUE,
                     DateClause(dates.startDate, dates.endDate),
                     ~Includes(user, ALL), user)), << >>)
    ELSE IF Truthy(period) /\ period # ALL
      THEN IF ~KnownPeriod(period) THEN Throws("InvalidPeriod", <<period>>) ELSE
           LET d == periodToDates(period) IN
             Returns(pipeline(MatchSelector(projectList, TRUE,
                       DateClause(d.startDate, d.endDate),
                       ~Includes(user, ALL), user)), <<period>>)
    ELSE IF Includes(user, ALL)
      THEN Returns(pipeline(MatchSelector(projectList, FALSE, Empty, FALSE, Empty)), << >>)
      ELSE Returns(pipeline(Empty), << >>)

buildDailyHoursSelector(projectId, period, dates, user, customer, limit, page) ==
  LET projectList == IF ~Includes(customer, ALL)
                       THEN CustomerProjectIds(customer)
                       ELSE getProjectListById(projectId)
      skipSelector == SkipSelector(page, limit)
      sortSelector == [sort |-> [date |-> -1]]
      groupSelector == [group |-> [_id |-> [userId |-> "$userId", projectId |-> "$projectId",
                                            date |-> "$date"],
                                   totalHours |-> [sum |-> "$hours"]]]
      pipeline(matchSelector) ==
        <<matchSelector, groupSelector, sortSelector, skipSelector>> \o LimitStages(limit)
  IN
    IF Truthy(period) /\ period = CUSTOM
      THEN Returns(pipeline(MatchSelector(projectList, TRUE,
                     DateClause(dates.startDate, dates.endDate),
                     ~Includes(user, ALL), user)), << >>)
    ELSE IF Truthy(period) /\ period # ALL
      THEN IF ~KnownPeriod(period) THEN Throws("InvalidPeriod", <<period>>) ELSE
           LET d == periodToDates(period) IN
             Returns(pipeline(MatchSelector(projectList, TRUE,
                       DateClause(d.startDate, d.endDate),
                       ~Includes(user, ALL), user)), <<period>>)
    ELSE Returns(pipeline(MatchSelector(projectList, FALSE, Empty,
                   ~Includes(user, ALL), user)), << >>)

buildworkingTimeSelector(projectId, period, dates, user, limit, page) ==
  LET projectList == getProjectListById(projectId)
      skipSelector == SkipSelector(page, limit)
      sortSelector == [sort |-> [date |-> -1]]
      groupSelector == [group |-> [_id |-> [userId |-> "$userId", date |-> "$date"],
                                   totalTime |-> [sum |-> "$hours"]]]
      pipeline(matchSelector) ==
        <<matchSelector, groupSelector, skipSelector, sortSelector>> \o LimitStages(limit)
  IN
    IF Truthy(period) /\ period = CUSTOM
      THEN Returns(pipeline(MatchSelector(projectList, TRUE,
                     DateClause(dates.startDate, dates.endDate),
                     ~Includes(user, ALL), user)), << >>)
    ELSE IF Truthy(period) /\ period # ALL
      THEN IF ~KnownPeriod(period) THEN Throws("InvalidPeriod", <<period>>) ELSE
           LET d == periodToDates(period) IN
             Returns(pipeline(MatchSelector(projectList, TRUE,
                       DateClause(d.startDate, d.endDate),
                       ~Includes(user, ALL), user)), <<period>>)
    ELSE Returns(pipeline(MatchSelector(projectList, FALSE, Empty,
                   ~Includes(user, ALL), user)), << >>)

\* the characters of /[-[\]{}()*+?.,\\/^$|#\s]/
RegexMeta ==
  {"-", "[", "]", "{", "}", "(", ")", "*", "+", "?", ".", ",", "\\", "/", "^", "$",
   "|", "#", " "}

\* search.replace(/[-[\]{}()*+?.,\\/^$|#\s]/g, '\\$&')
RECURSIVE EscapeRegex(_)
EscapeRegex(str) ==
  IF str = << >> THEN << >>
  ELSE (IF Head(str) \in RegexMeta THEN <<"\\", Head(str)>> ELSE <<Head(str)>>)
         \o EscapeRegex(Tail(str))

\* switch (sort.column)
SortField(column) ==
  CASE column = 0 -> "projectId"
    [] column = 1 -> "date"
    [] column = 2 -> "task"
    [] column = 3 -> "userId"
    [] column = 4 -> "hours"
    [] OTHER -> "date"

\* switch (sort.order)
SortOrder(order) ==
  CASE order = "asc" -> 1
    [] order = "desc" -> -1
    [] OTHER -> -1

\* a decimal digit string as a number: Number('12'), and the day dayjs parses
DigitValue(c) ==
  CASE c = "0" -> 0 [] c = "1" -> 1 [] c = "2" -> 2 [] c = "3" -> 3 [] c = "4" -> 4
    [] c = "5" -> 5 [] c = "6" -> 6 [] c = "7" -> 7 [] c = "8" -> 8 [] c = "9" -> 9

RECURSIVE ToNumber(_)
ToNumber(str) ==
  IF str = << >> THEN 0
  ELSE 10 * ToNumber(SubSeq(str, 1, Len(str) - 1)) + DigitValue(str[Len(str)])

\* typeof v === 'string', of a date or hours filter value [kind, val]
IsString(v) == v.kind = "string"

\* dayjs(filterValue, dateformat).startOf('day') and .endOf('day'), in minutes, the
\* date string being the number of its day
StartOfDay(str) == ToNumber(str) * 24 * 60
EndOfDay(str) == ToNumber(str) * 24 * 60 + (24 * 60 - 1)

\* the filters object as the for-in loop leaves it: the loop rewrites the object it
\* was handed, key by key
ProcessFilters(filters) ==
  LET keys == DOMAIN filters
      customerHit == "customer" \in keys
      stateHit == "state" \in keys /\ filters.state = "new"
      dateHit == "date" \in keys /\ IsString(filters.date)
      hoursHit == "hours" \in keys /\ IsString(filters.hours)
      removed == (IF customerHit THEN {"customer"} ELSE {})
                   \cup (IF stateHit THEN {"state"} ELSE {})
      kept == [k \in keys \ removed |-> filters[k]]
  IN
    (IF customerHit
       THEN "projectId" :> [in |-> CustomerProjectIds(filters.customer)] ELSE Empty)
    @@ (IF stateHit
          THEN "or" :> << [state |-> [exists |-> FALSE]], [state |-> "new"] >> ELSE Empty)
    @@ (IF dateHit
          THEN "date" :> [kind |-> "object",
                          val |-> DateClause(StartOfDay(filters.date.val),
                                             EndOfDay(filters.date.val))]
          ELSE Empty)
    @@ (IF hoursHit
          THEN "hours" :> [kind |-> "number", val |-> ToNumber(filters.hours.val)]
          ELSE Empty)
    @@ kept

\* the filters replace the base query instead of being and-ed with it
MutFinalQuery(query, filters) == filters

\* finalQuery.$and = []; finalQuery.$and.push(query); finalQuery.$and.push(filters)
FinalQuery(query, filters) == [and |-> <<query, filters>>]

\* the outcome of buildDetailedTimeEntriesForPeriodSelector(req), and in `filters`
\* the state the call leaves the caller's req.filters object in
buildDetailedTimeEntriesForPeriodSelector(req) ==
  LET projectList ==
        IF ~Includes(req.customer, ALL) /\ Includes(req.projectId, ALL)
          THEN CustomerProjectIds(req.customer)
          ELSE getProjectListById(req.projectId)
      searchClause ==
        IF Truthy(req.search)
          THEN "task" :> [regex |-> <<".", "*">> \o EscapeRegex(req.search) \o <<".", "*">>,
                          options |-> "i"]
          ELSE Empty
      limitOption ==
        IF TruthyNum(req.limit) /\ req.limit > 0 THEN "limit" :> req.limit ELSE Empty
      sortOption ==
        IF Has(req, "sort")
          THEN "sort" :> (SortField(req.sort.column) :> SortOrder(req.sort.order))
          ELSE "sort" :> [date |-> -1]
      skipOption ==
        IF TruthyNum(req.page) THEN "skip" :> SkipOf(req.page, req.limit) ELSE Empty
      options == sortOption @@ limitOption @@ skipOption
      calls == IF req.period # CUSTOM /\ req.period # ALL THEN <<req.period>> ELSE << >>
      dateClause ==
        IF req.period = CUSTOM
          THEN "date" :> DateClause(req.dates.startDate, req.dates.endDate)
        ELSE IF req.period # ALL
          THEN "date" :> DateClause(periodToDates(req.period).startDate,
                                    periodToDates(req.period).endDate)
          ELSE Empty
      userClause ==
        IF ~Includes(req.userId, ALL)
          THEN IF req.userId.kind = "array"
                 THEN "userId" :> [in |-> req.userId.val]
                 ELSE "userId" :> req.userId.val
          ELSE Empty
      query == [projectId |-> [in |-> projectList]] @@ searchClause @@ dateClause
                 @@ userClause
  IN
    IF req.period # CUSTOM /\ req.period # ALL /\ ~KnownPeriod(req.period)
      THEN Throws("InvalidPeriod", calls)
    ELSE IF Has(req, "filters")
      THEN Returns(<<FinalQuery(query, ProcessFilters(req.filters)), options>>, calls)
             @@ ("filters" :> ProcessFilters(req.filters))
      ELSE Returns(<<query, options>>, calls)

-----------------------------------------------------------------------------
(* SpecBuild: the four builders applied to a request drawn at the start; the *)
(* detailed entries builder rewrites the filters object of the request       *)

\* largest limit besides 10, and largest page, of a request
MaxLimit == 2
MaxPage == 2

BuildCollections ==
  { {[_id |-> P1, userId |-> U1, customer |-> C1]} \cup b :
      b \in { {},
              {[_id |-> P2, userId |-> U1, customer |-> C2]},
              {[_id |-> P2, userId |-> U2, customer |-> C1]},
              {[_id |-> P2, userId |-> U2, public |-> TRUE, archived |-> FALSE,
                customer |-> C1]} } }

FilterMaps ==
  { Empty,
    [customer |-> Str(C1)],
    [state |-> "new"],
    [state |-> "exported"],
    [customer |-> Str(C1), state |-> "new", projectId |-> P2],
    [date |-> Str(<<"0", "5">>), hours |-> Str(<<"1", "2">>)],
    [date |-> [kind |-> "object", val |-> DateClause(1, 3)],
     hours |-> [kind |-> "number", val |-> 2]] }

\* the selectors, period, paging and filters of a request, in every combination
CoreRequests ==
  { [projectId |-> projectId, customer |-> customer, period |-> period,
     dates |-> [startDate |-> 1, endDate |-> 3], userId |-> user,
     limit |-> limit, page |-> page, search |-> Null] @@ filters :
      projectId \in {Str(ALL), Str(P1), Arr(<<P1, P2>>)},
      customer \in {Str(ALL), Str(C1)},
      period \in {CUSTOM, LastWeek, ALL, Null},
      user \in {Str(ALL), Str(U1), Arr(<<U1, U2>>)},
      limit \in (0..MaxLimit) \cup {10},
      page \in 0..MaxPage,
      filters \in {Empty} \cup { [filters |-> f] : f \in FilterMaps } }

\* one request with a search string and a sort in every combination
SortedRequests ==
  { [projectId |-> Str(ALL), customer |-> Str(ALL), period |-> ALL,
     dates |-> [startDate |-> 1, endDate |-> 3], userId |-> Str(ALL),
     limit |-> 10, page |-> 2, search |-> search] @@ sort :
      search \in {Null, <<"a", ".", "b">>},
      sort \in {Empty} \cup
        { [sort |-> [column |-> c, order |-> o]] :
            c \in 0..5, o \in {"asc", "desc", "none"} } }

Requests == CoreRequests \cup SortedRequests

InitBuild ==
  /\ Projects \in BuildCollections
  /\ userId = U1
  /\ users = {}
  /\ Globalsettings = {}
  /\ ret = [op |-> "none"]
  /\ request \in Requests
  /\ method = NoMethod
  /\ Transactions = <<>>

CallBuildTotalHoursForPeriodSelector ==
  /\ ret' = [op |-> "buildTotalHoursForPeriodSelector", args |-> request]
              @@ buildTotalHoursForPeriodSelector(request.projectId, request.period,
                   request.dates, request.userId, request.customer, request.limit,
                   request.page)
  /\ UNCHANGED <<Projects, users, Globalsettings, userId, request, method, Transactions>>

CallBuildDailyHoursSelector ==
  /\ ret' = [op |-> "buildDailyHoursSelector", args |-> request]
              @@ buildDailyHoursSelector(request.projectId, request.period,
                   request.dates, request.userId, request.customer, request.limit,
                   request.page)
  /\ UNCHANGED <<Projects, users, Globalsettings, userId, request, method, Transactions>>

CallBuildworkingTimeSelector ==
  /\ ret' = [op |-> "buildworkingTimeSelector", args |-> request]
              @@ buildworkingTimeSelector(request.projectId, request.period,
                   request.dates, request.userId, request.limit, request.page)
  /\ UNCHANGED <<Projects, users, Globalsettings, userId, request, method, Transactions>>

\* the call rewrites request.filters in place unless it threw before reaching them
CallBuildDetailedTimeEntriesForPeriodSelector ==
  LET result == buildDetailedTimeEntriesForPeriodSelector(request) IN
    /\ ret' = [op |-> "buildDetailedTimeEntriesForPeriodSelector", args |-> request]
                @@ result
    /\ request' = IF Has(result, "filters")
                    THEN [request EXCEPT !.filters = result.filters]
                    ELSE request
    /\ UNCHANGED <<Projects, users, Globalsettings, userId, method, Transactions>>

NextBuild ==
  \/ CallBuildTotalHoursForPeriodSelector
  \/ CallBuildDailyHoursSelector
  \/ CallBuildworkingTimeSelector
  \/ CallBuildDetailedTimeEntriesForPeriodSelector

SpecBuild == InitBuild /\ [][NextBuild]_vars

-----------------------------------------------------------------------------
(* C5 .. C9 *)

PipelineBuilders ==
  {"buildTotalHoursForPeriodSelector", "buildDailyHoursSelector",
   "buildworkingTimeSelector"}
CustomerBuilders ==
  {"buildTotalHoursForPeriodSelector", "buildDailyHoursSelector",
   "buildDetailedTimeEntriesForPeriodSelector"}
Detailed == "buildDetailedTimeEntriesForPeriodSelector"

Built(ops) == ret.op \in ops /\ ret.threw = "no"

\* the $match stages of a returned pipeline
MatchStages(pipeline) ==
  { pipeline[i].match : i \in { j \in DOMAIN pipeline : Has(pipeline[j], "match") } }

\* the base query of a returned detailed entries query
BaseQuery(finalQuery) ==
  IF Has(finalQuery, "and") THEN finalQuery.and[1] ELSE finalQuery

\* the objects of the result that carry the scope, date and user clauses
ClauseCarriers ==
  IF ret.op = Detailed THEN {BaseQuery(ret.out[1])} ELSE MatchStages(ret.out)

\* C5: whatever the period and the user selector, the pipeline of the total hours,
\* daily hours and working time builders has a $match stage whose projectId clause
\* is {$in: projectList} for the resolved project scope.
C5_PipelineRestrictedToScope ==
  Built(PipelineBuilders) =>
    LET scope == IF ret.op # "buildworkingTimeSelector" /\ ~Includes(ret.args.customer, ALL)
                   THEN CustomerProjectIds(ret.args.customer)
                   ELSE getProjectListById(ret.args.projectId)
    IN \E m \in MatchStages(ret.out) :
         Has(m, "projectId") /\ m.projectId = [in |-> scope]

\* C6: in every builder that takes a customer selector, a customer selector other
\* than 'all' decides the scope (getProjectListByCustomer) whatever the projectId
\* selector is; only with customer 'all' is it getProjectListById(projectId).
C6_CustomerTakesPrecedence ==
  Built(CustomerBuilders) =>
    \A c \in ClauseCarriers :
      Has(c, "projectId") =>
        c.projectId.in = IF ~Includes(ret.args.customer, ALL)
                           THEN CustomerProjectIds(ret.args.customer)
                           ELSE getProjectListById(ret.args.projectId)

\* C7: in each of the four builders the date clause is the custom dates when period
\* is 'custom', the bounds of periodToDates(period) when period is neither 'all' nor
\* null, and otherwise there is no date clause and periodToDates is not called.
C7_DateClauseByPeriod ==
  ret.op \in PipelineBuilders \cup {Detailed} =>
    LET period == ret.args.period
        dates == ret.args.dates
    IN
      IF period = CUSTOM
        THEN /\ ret.threw = "no"
             /\ \A c \in ClauseCarriers :
                  Has(c, "date") /\ c.date = DateClause(dates.startDate, dates.endDate)
      ELSE IF period # ALL /\ period # Null
        THEN /\ ret.threw = "no"
             /\ \A c \in ClauseCarriers :
                  /\ Has(c, "date")
                  /\ c.date = DateClause(periodToDates(period).startDate,
                                         periodToDates(period).endDate)
        ELSE /\ ret.periodToDatesCalls = << >>
             /\ ret.threw = "no"
             /\ \A c \in ClauseCarriers : ~Has(c, "date")

\* the $skip stages of a returned pipeline
SkipStages(pipeline) ==
  { pipeline[i].skip : i \in { j \in DOMAIN pipeline : Has(pipeline[j], "skip") } }

ExpectedSkip ==
  IF ret.args.page >= 1 THEN (ret.args.page - 1) * ret.args.limit ELSE 0

\* C8 as stated: in all four builders the skip value handed to the query engine
\* ($skip stage, options.skip) is (page - 1) * limit when page is given and 0 when
\* it is not.
C8_SkipInEveryBuilder ==
  /\ Built(PipelineBuilders) => SkipStages(ret.out) = {ExpectedSkip}
  /\ Built({Detailed}) => Has(ret.out[2], "skip") /\ ret.out[2].skip = ExpectedSkip

\* C8 as amended: the $skip stage of the three pipeline builders is (page - 1) * limit
\* when page is given and 0 when it is not; options.skip of the detailed entries
\* builder is (page - 1) * limit when page is given, and options has no skip key
\* when it is not.
C8_SkipOrNoSkipKey ==
  /\ Built(PipelineBuilders) => SkipStages(ret.out) = {ExpectedSkip}
  /\ Built({Detailed}) =>
       IF ret.args.page >= 1
         THEN Has(ret.out[2], "skip") /\ ret.out[2].skip = ExpectedSkip
         ELSE ~Has(ret.out[2], "skip")

\* page 2 with limit 10 skips 10, in the options of the detailed entries builder
C8_Witness ==
  /\ Built({Detailed})
  /\ ret.args.page = 2 /\ ret.args.limit = 10
  /\ ret.out[2].skip = 10

\* the request without its filters map
WithoutFilters(req) == [k \in DOMAIN req \ {"filters"} |-> req[k]]

\* the projects of a customer that the requesting user may see
VisibleOfCustomer(customer) ==
  { p._id : p \in { q \in Projects :
      /\ Has(q, "customer") /\ q.customer = customer
      /\ OwnedBy(q, userId) \/ IsPublic(q) \/ InTeam(q, userId)
      /\ ~IsArchived(q) } }

\* C9: the detailed entries builder returns the base query alone when it is given no
\* filters, and {$and: [base query, processed filters]} when it is given some, the
\* base query being what it is without filters (scope, search, date and user
\* clauses); in the processed filters a customer key has become a projectId $in of
\* that customer's visible projects, and a state 'new' has become
\* $or: [{state absent}, {state: 'new'}].
C9_FiltersAndedWithBaseQuery ==
  Built({Detailed}) =>
    LET finalQuery == ret.out[1]
        base == buildDetailedTimeEntriesForPeriodSelector(WithoutFilters(ret.args)).out[1]
    IN
      IF ~Has(ret.args, "filters")
        THEN /\ ~Has(finalQuery, "and")
             /\ Has(finalQuery, "projectId")
        ELSE /\ DOMAIN finalQuery = {"and"}
             /\ Len(finalQuery.and) = 2
             /\ finalQuery.and[1] = base
             /\ Has(base, "projectId")
             /\ LET given == ret.args.filters
                    processed == finalQuery.and[2]
                IN
                  /\ Has(given, "customer") =>
                       /\ ~Has(processed, "customer")
                       /\ processed.projectId =
                            [in |-> VisibleOfCustomer(given.customer.val)]
                  /\ (Has(given, "state") /\ given.state = "new") =>
                       /\ ~Has(processed, "state")
                       /\ processed.or =
                            << [state |-> [exists |-> FALSE]], [state |-> "new"] >>

\* a customer and a state 'new' filter and-ed with a base query that keeps its scope,
\* date and user clauses
C9_Witness ==
  /\ Built({Detailed})
  /\ Has(ret.args, "filters")
  /\ Has(ret.args.filters, "customer")
  /\ Has(ret.args.filters, "state")
  /\ ret.out[1].and[2].projectId.in # {}
  /\ Has(ret.out[1].and[1], "date")
  /\ Has(ret.out[1].and[1], "userId")

-----------------------------------------------------------------------------
(* WorkScheduleMapper *)

\* JavaScript numbers, and the promise an unawaited async call returns
Num(n) == [kind |-> "number", val |-> n]
NaN == [kind |-> "NaN"]
Promise == [kind |-> "promise"]

\* a dayjs object: minutes since the start of today, or an invalid date
Moment(t) == [valid |-> TRUE, t |-> t]
InvalidMoment == [valid |-> FALSE]

InvalidDate == <<"I", "n", "v", "a", "l", "i", "d", " ", "D", "a", "t", "e">>

\* Number(v), also the coercion of `a - v` and of dayjs add(v, unit)
ToNum(v) ==
  CASE v.kind = "number" -> v
    [] v.kind = "string" -> Num(ToNumber(v.val))
    [] OTHER -> NaN

\* dayjs(v, 'HH:mm') with customParseFormat: today at HH:mm for a string, an invalid
\* date for a value that is no string
ParseHHmm(v) ==
  IF v.kind = "string"
    THEN Moment(ToNumber(SubSeq(v.val, 1, 2)) * 60 + ToNumber(SubSeq(v.val, 4, 5)))
    ELSE InvalidMoment

\* moment.add(v, 'hour')
AddHours(moment, v) ==
  IF moment.valid /\ ToNum(v).kind = "number"
    THEN Moment(moment.t + ToNum(v).val * 60)
    ELSE InvalidMoment

Digits == <<"0", "1", "2", "3", "4", "5", "6", "7", "8", "9">>
Pad2(n) == <<Digits[(n \div 10) + 1], Digits[(n % 10) + 1]>>

\* moment.format('HH:mm')
FormatHHmm(moment) ==
  IF moment.valid
    THEN Pad2((moment.t \div 60) % 24) \o <<":">> \o Pad2(moment.t % 60)
    ELSE InvalidDate

\* a.isAfter(b) taken for "not before": a day ending at the break start shows a break
MutIsAfter(a, b) == a.valid /\ b.valid /\ a.t >= b.t

\* a.isAfter(b)
IsAfter(a, b) == a.valid /\ b.valid /\ a.t > b.t

\* userEndTime.isAfter(userBreakStartTime)
BreakShown(userEndTime, userBreakStartTime) == IsAfter(userEndTime, userBreakStartTime)

\* Globalsettings.findOneAsync({ name }), awaited: the value, or false
getGlobalSettingAsync(name) ==
  IF \E g \in Globalsettings : g.name = name
    THEN (CHOOSE g \in Globalsettings : g.name = name).value
    ELSE FALSE

\* meteorUser?.profile?.field ? meteorUser.profile.field : getGlobalSettingAsync(field)
\* the call is not awaited: the fallback is the promise, not the setting
ProfileOrGlobal(meteorUser, field) ==
  IF \E u \in meteorUser :
       Has(u, "profile") /\ Has(u.profile, field) /\ Truthy(u.profile[field])
    THEN Str((CHOOSE u \in meteorUser : TRUE).profile[field])
    ELSE Promise

workingTimeEntriesMapper(entry) ==
  LET meteorUser == FindUser(entry._id.userId)
      userBreakStartTime == ParseHHmm(ProfileOrGlobal(meteorUser, "breakStartTime"))
      userBreakDuration == ProfileOrGlobal(meteorUser, "breakDuration")
      userBreakEndTime == AddHours(userBreakStartTime, userBreakDuration)
      userRegularWorkingTime == ProfileOrGlobal(meteorUser, "regularWorkingTime")
      userStartTime == ProfileOrGlobal(meteorUser, "dailyStartTime")
      worked == AddHours(ParseHHmm(userStartTime), Num(entry.totalTime))
      userEndTime == IF getGlobalSettingAsync("addBreakToWorkingTime") = TRUE
                       THEN AddHours(worked, userBreakDuration)
                       ELSE worked
      difference == IF ToNum(userRegularWorkingTime).kind = "number"
                      THEN Num(entry.totalTime - ToNum(userRegularWorkingTime).val)
                      ELSE NaN
  IN
    [date |-> entry._id.date,
     resource |-> { u.profile.name : u \in { v \in meteorUser :
                      Has(v, "profile") /\ Has(v.profile, "name") } },
     startTime |-> userStartTime,
     breakStartTime |-> IF BreakShown(userEndTime, userBreakStartTime)
                          THEN FormatHHmm(userBreakStartTime) ELSE << >>,
     breakEndTime |-> IF BreakShown(userEndTime, userBreakStartTime)
                        THEN FormatHHmm(userBreakEndTime) ELSE << >>,
     endTime |-> FormatHHmm(userEndTime),
     totalTime |-> entry.totalTime,
     regularWorkingTime |-> ToNum(userRegularWorkingTime),
     regularWorkingTimeDifference |-> difference]

-----------------------------------------------------------------------------
(* SpecMapper: the mapper applied to aggregated entries of a user whose profile *)
(* holds any part of the working time settings                                  *)

\* most hours a day's entries add up to
MaxTotalTime == 10

T0800 == <<"0", "8", ":", "0", "0">>
T0900 == <<"0", "9", ":", "0", "0">>
T1100 == <<"1", "1", ":", "0", "0">>
T1200 == <<"1", "2", ":", "0", "0">>
T1300 == <<"1", "3", ":", "0", "0">>
T1800 == <<"1", "8", ":", "0", "0">>

\* the settings form stores what was typed: strings, '' for a field left empty
Profiles ==
  { [name |-> <<"A", "n", "n">>] @@ start @@ break @@ duration @@ regular :
      start \in Optional("dailyStartTime", {T0900, T1800, Null}),
      break \in Optional("breakStartTime", {T1200}),
      duration \in Optional("breakDuration", {<<"1">>, <<"0">>, Null}),
      regular \in Optional("regularWorkingTime", {<<"8">>}) }

\* u1 with any profile or with none; u3 is not known
MapperUsers ==
  { {[_id |-> U1]} } \cup { {[_id |-> U1, profile |-> p]} : p \in Profiles }

GlobalDefaults ==
  { [name |-> "dailyStartTime", value |-> T0800],
    [name |-> "breakStartTime", value |-> T1300],
    [name |-> "breakDuration", value |-> <<"2">>],
    [name |-> "regularWorkingTime", value |-> <<"7">>] }

MapperSettings ==
  { defaults \cup flag :
      defaults \in {{}, GlobalDefaults},
      flag \in {{}} \cup { {[name |-> "addBreakToWorkingTime", value |-> v]} :
                             v \in {TRUE, FALSE} } }

InitMapper ==
  /\ Projects = {}
  /\ userId = U1
  /\ users \in MapperUsers
  /\ Globalsettings \in MapperSettings
  /\ ret = [op |-> "none"]
  /\ request = NoRequest
  /\ method = NoMethod
  /\ Transactions = <<>>

CallWorkingTimeEntriesMapper ==
  \E user \in {U1, U3}, totalTime \in 0..MaxTotalTime :
    LET entry == [_id |-> [userId |-> user, date |-> 1], totalTime |-> totalTime] IN
      /\ ret' = [op |-> "workingTimeEntriesMapper", entry |-> entry,
                 out |-> workingTimeEntriesMapper(entry)]
      /\ UNCHANGED <<Projects, users, Globalsettings, userId, request, method, Transactions>>

NextMapper == CallWorkingTimeEntriesMapper

SpecMapper == InitMapper /\ [][NextMapper]_vars

-----------------------------------------------------------------------------
(* C10 *)

SettingFields == {"dailyStartTime", "breakStartTime", "breakDuration", "regularWorkingTime"}

\* the profile of the entry's user holds every working time setting
SettingsOnProfile(entry) ==
  \E u \in users :
    /\ u._id = entry._id.userId
    /\ Has(u, "profile")
    /\ \A f \in SettingFields : Has(u.profile, f) /\ u.profile[f] # << >>

ProfileOf(entry) == (CHOOSE u \in users : u._id = entry._id.userId).profile

MinuteOfDay(hhmm) ==
  (DigitValue(hhmm[1]) * 10 + DigitValue(hhmm[2])) * 60
    + DigitValue(hhmm[4]) * 10 + DigitValue(hhmm[5])

AddBreakToWorkingTime ==
  \E g \in Globalsettings : g.name = "addBreakToWorkingTime" /\ g.value = TRUE

\* C10: with the settings on the profile, endTime is dailyStartTime plus totalTime
\* hours (plus breakDuration hours when addBreakToWorkingTime is set), the break
\* fields are breakStartTime and breakStartTime plus breakDuration exactly when that
\* end lies strictly after breakStartTime and are empty strings otherwise, and
\* regularWorkingTimeDifference is totalTime - regularWorkingTime; start 09:00, break
\* 12:00 for 1h and no added break give 13:00 with break 12:00-13:00 for totalTime 4
\* and 11:00 with empty break fields for totalTime 2.
C10_ScheduleFromProfile ==
  (ret.op = "workingTimeEntriesMapper" /\ SettingsOnProfile(ret.entry)) =>
    LET profile == ProfileOf(ret.entry)
        total == ret.entry.totalTime
        start == MinuteOfDay(profile.dailyStartTime)
        break == MinuteOfDay(profile.breakStartTime)
        duration == ToNumber(profile.breakDuration)
        end == start + total * 60 + (IF AddBreakToWorkingTime THEN duration * 60 ELSE 0)
        breakEnd == break + duration * 60
        example == /\ profile.dailyStartTime = T0900 /\ profile.breakStartTime = T1200
                   /\ profile.breakDuration = <<"1">> /\ ~AddBreakToWorkingTime
    IN
      /\ MinuteOfDay(ret.out.endTime) = end % (24 * 60)
      /\ IF end > break
           THEN /\ ret.out.breakStartTime = profile.breakStartTime
                /\ MinuteOfDay(ret.out.breakEndTime) = breakEnd % (24 * 60)
           ELSE /\ ret.out.breakStartTime = << >>
                /\ ret.out.breakEndTime = << >>
      /\ ret.out.regularWorkingTimeDifference =
           Num(total - ToNumber(profile.regularWorkingTime))
      /\ (example /\ total = 4) =>
           /\ ret.out.endTime = T1300
           /\ ret.out.breakStartTime = T1200 /\ ret.out.breakEndTime = T1300
      /\ (example /\ total = 2) =>
           /\ ret.out.endTime = T1100
           /\ ret.out.breakStartTime = << >> /\ ret.out.breakEndTime = << >>

\* the day of the example: 09:00 plus 4 hours ends at 13:00, after the break start
C10_Witness ==
  /\ ret.op = "workingTimeEntriesMapper"
  /\ SettingsOnProfile(ret.entry)
  /\ ret.entry.totalTime = 4
  /\ ProfileOf(ret.entry).dailyStartTime = T0900
  /\ ~AddBreakToWorkingTime
  /\ ret.out.endTime = T1300
  /\ ret.out.breakStartTime = T1200
  /\ ret.out.breakEndTime = T1300

-----------------------------------------------------------------------------
(* C11 *)

GlobalValue(name) == (CHOOSE g \in Globalsettings : g.name = name).value

\* the user of the entry has a profile that leaves a working time setting undefined,
\* and the global settings define them all
FallsBackToGlobal(entry) ==
  /\ \E u \in users :
       /\ u._id = entry._id.userId
       /\ Has(u, "profile")
       /\ \E f \in SettingFields : ~Has(u.profile, f)
       /\ \A f \in SettingFields : Has(u.profile, f) => u.profile[f] # << >>
  /\ \A f \in SettingFields : \E g \in Globalsettings : g.name = f

\* the setting the claim has the mapper use: the profile's, else the global one
EffectiveSetting(entry, f) ==
  IF Has(ProfileOf(entry), f) THEN ProfileOf(entry)[f] ELSE GlobalValue(f)

\* C11: where the profile does not define dailyStartTime, breakStartTime,
\* breakDuration or regularWorkingTime, the mapper computes with the value of the
\* global setting of that name: startTime, break window, endTime, regularWorkingTime
\* and regularWorkingTimeDifference are those of a profile holding the global values.
C11_GlobalSettingEntersComputation ==
  (ret.op = "workingTimeEntriesMapper" /\ FallsBackToGlobal(ret.entry)) =>
    LET total == ret.entry.totalTime
        start == MinuteOfDay(EffectiveSetting(ret.entry, "dailyStartTime"))
        break == MinuteOfDay(EffectiveSetting(ret.entry, "breakStartTime"))
        duration == ToNumber(EffectiveSetting(ret.entry, "breakDuration"))
        regular == ToNumber(EffectiveSetting(ret.entry, "regularWorkingTime"))
        end == start + total * 60 + (IF AddBreakToWorkingTime THEN duration * 60 ELSE 0)
    IN
      /\ ret.out.startTime = Str(EffectiveSetting(ret.entry, "dailyStartTime"))
      /\ ret.out.endTime = FormatHHmm(Moment(end))
      /\ ret.out.breakStartTime =
           (IF end > break THEN FormatHHmm(Moment(break)) ELSE << >>)
      /\ ret.out.breakEndTime =
           (IF end > break THEN FormatHHmm(Moment(break + duration * 60)) ELSE << >>)
      /\ ret.out.regularWorkingTime = Num(regular)
      /\ ret.out.regularWorkingTimeDifference = Num(total - regular)

-----------------------------------------------------------------------------
(* SimilarityScorer *)

\* String.prototype.toLowerCase, on the letters the model uses
LowerOf(c) ==
  CASE c = "A" -> "a"
    [] c = "B" -> "b"
    [] c = "K" -> "k"
    [] OTHER -> c

\* the lower-casing forgotten
MutToLowerCase(str) == str

toLowerCase(str) == [i \in DOMAIN str |-> LowerOf(str[i])]

Min(a, b) == IF a < b THEN a ELSE b

\* costs[k] = v on a JavaScript array (index 0 is the first element), which grows
\* by one when k is its length
SetAt(costs, k, v) ==
  IF k + 1 <= Len(costs) THEN [costs EXCEPT ![k + 1] = v] ELSE Append(costs, v)

\* the one element of a singleton set: a value computed before it is used, as
\* each assignment of the loops is
Only(S) == CHOOSE r \in S : TRUE

\* for (let j = 0; j <= s2.length; j += 1) { ... } from j on, in row i
RECURSIVE InnerLoop(_, _, _, _, _, _)
InnerLoop(s1, s2, i, j, costs, lastValue) ==
  IF j > Len(s2) THEN [costs |-> costs, lastValue |-> lastValue]
  ELSE IF i = 0
    THEN Only({ InnerLoop(s1, s2, i, j + 1, assigned, lastValue) :
                  assigned \in {SetAt(costs, j, j)} })
  ELSE IF j > 0
    THEN LET newValue ==
               IF s1[i] # s2[j]
                 THEN Min(Min(costs[j], lastValue), costs[j + 1]) + 1
                 ELSE costs[j]
         IN Only({ InnerLoop(s1, s2, i, j + 1, assigned, value) :
                     assigned \in {SetAt(costs, j - 1, lastValue)},
                     value \in {newValue} })
    ELSE InnerLoop(s1, s2, i, j + 1, costs, lastValue)

\* for (let i = 0; i <= s1.length; i += 1) { ... } from i on
RECURSIVE OuterLoop(_, _, _, _)
OuterLoop(s1, s2, i, costs) ==
  IF i > Len(s1) THEN costs
  ELSE LET row == InnerLoop(s1, s2, i, 0, costs, i)
           after == IF i > 0 THEN SetAt(row.costs, Len(s2), row.lastValue)
                             ELSE row.costs
       IN Only({ OuterLoop(s1, s2, i + 1, assigned) : assigned \in {after} })

editDistance(string1, string2) ==
  LET s1 == toLowerCase(string1)
      s2 == toLowerCase(string2)
  IN OuterLoop(s1, s2, 0, << >>)[Len(s2) + 1]

\* a JavaScript number that is a quotient of two integers
Quotient(n, d) == [num |-> n, den |-> d]

\* the falsy short-circuit forgotten: two empty strings are alike
MutCalculateSimilarity(s1, s2) ==
  LET longer == IF Len(s1) < Len(s2) THEN s2 ELSE s1
      shorter == IF Len(s1) < Len(s2) THEN s1 ELSE s2
  IN IF Len(longer) = 0 THEN Quotient(1, 1)
     ELSE Quotient(Len(longer) - editDistance(longer, shorter), Len(longer))

calculateSimilarity(s1, s2) ==
  IF Truthy(s1) /\ Truthy(s2)
    THEN LET longer == IF Len(s1) < Len(s2) THEN s2 ELSE s1
             shorter == IF Len(s1) < Len(s2) THEN s1 ELSE s2
             longerLength == Len(longer)
         IN IF longerLength = 0 THEN Quotient(1, 1)
            ELSE Quotient(longerLength - editDistance(longer, shorter), longerLength)
    ELSE Quotient(0, 1)

-----------------------------------------------------------------------------
(* SpecSimilarity: both functions applied to a pair of strings drawn at the start *)

\* longest string over the small alphabet
MaxStrLen == 3

Kitten == <<"k", "i", "t", "t", "e", "n">>
Sitting == <<"s", "i", "t", "t", "i", "n", "g">>
Abc == <<"a", "b", "c">>
Abd == <<"a", "b", "d">>

SmallStrings == ArraysOf({"a", "b", "A"}, MaxStrLen)

StringPairs ==
  (SmallStrings \X SmallStrings)
    \cup ({Kitten, Sitting, <<"K", "i", "t", "t", "e", "n">>, Abc, Abd, Null}
            \X {Kitten, Sitting, Abc, Abd, Null})

InitSimilarity ==
  /\ Projects = {}
  /\ userId = Null
  /\ users = {}
  /\ Globalsettings = {}
  /\ ret = [op |-> "none"]
  /\ request \in { [s1 |-> pair[1], s2 |-> pair[2]] : pair \in StringPairs }
  /\ method = NoMethod
  /\ Transactions = <<>>

CallEditDistance ==
  /\ ret' = [op |-> "editDistance", string1 |-> request.s1, string2 |-> request.s2,
             out |-> editDistance(request.s1, request.s2)]
  /\ UNCHANGED <<Projects, users, Globalsettings, userId, request, method, Transactions>>

CallCalculateSimilarity ==
  /\ ret' = [op |-> "calculateSimilarity", s1 |-> request.s1, s2 |-> request.s2,
             out |-> calculateSimilarity(request.s1, request.s2)]
  /\ UNCHANGED <<Projects, users, Globalsettings, userId, request, method, Transactions>>

NextSimilarity == CallEditDistance \/ CallCalculateSimilarity

SpecSimilarity == InitSimilarity /\ [][NextSimilarity]_vars

-----------------------------------------------------------------------------
(* C12 *)

\* the Levenshtein distance by its defining recursion on the last characters
RECURSIVE Levenshtein(_, _)
Levenshtein(a, b) ==
  IF Len(a) = 0 THEN Len(b)
  ELSE IF Len(b) = 0 THEN Len(a)
  ELSE LET a1 == SubSeq(a, 1, Len(a) - 1)
           b1 == SubSeq(b, 1, Len(b) - 1)
       IN IF a[Len(a)] = b[Len(b)]
            THEN Levenshtein(a1, b1)
            ELSE 1 + Min(Levenshtein(a1, b1), Min(Levenshtein(a1, b), Levenshtein(a, b1)))

Lowered(str) == [i \in DOMAIN str |-> LowerOf(str[i])]

\* C12: editDistance(a, b) is the Levenshtein distance of the lower-cased a and b,
\* the empty string and strings of different lengths included; kitten and sitting
\* are 3 apart, and strings that differ only in letter case are 0 apart.
C12_EditDistanceIsLevenshtein ==
  ret.op = "editDistance" =>
    /\ ret.out = Levenshtein(Lowered(ret.string1), Lowered(ret.string2))
    /\ (ret.string1 = Kitten /\ ret.string2 = Sitting) => ret.out = 3
    /\ Lowered(ret.string1) = Lowered(ret.string2) => ret.out = 0

\* strings of different lengths that differ in case only where they agree
C12_Witness ==
  /\ ret.op = "editDistance"
  /\ ret.string1 = <<"A", "b">>
  /\ ret.string2 = <<"a", "b", "a">>
  /\ ret.out = 1

-----------------------------------------------------------------------------
(* C13 *)

\* C13: calculateSimilarity(s1, s2) is 0 when either argument is falsy, two empty
\* strings included; for two non-empty strings it is (L - distance) / L with L the
\* length of the longer one, the same in both argument orders, between 0 and 1, and
\* 1 exactly when the strings are equal ignoring case; abc and abd score 2/3.
C13_SimilarityScore ==
  ret.op = "calculateSimilarity" =>
    LET a == ret.s1
        b == ret.s2
        L == IF Len(a) < Len(b) THEN Len(b) ELSE Len(a)
    IN /\ (Falsy(a) \/ Falsy(b)) => ret.out = Quotient(0, 1)
       /\ (~Falsy(a) /\ ~Falsy(b)) =>
            /\ ret.out = Quotient(L - Levenshtein(Lowered(a), Lowered(b)), L)
            /\ ret.out = calculateSimilarity(b, a)
            /\ 0 <= ret.out.num /\ ret.out.num <= ret.out.den /\ ret.out.den > 0
            /\ (ret.out.num = ret.out.den) <=> (Lowered(a) = Lowered(b))
       /\ (a = Abc /\ b = Abd) => ret.out = Quotient(2, 3)

\* a shorter first argument that differs from the second in case and in length
C13_Witness ==
  /\ ret.op = "calculateSimilarity"
  /\ ret.s1 = <<"A", "b">>
  /\ ret.s2 = <<"a", "b", "b">>
  /\ ret.out = Quotient(2, 3)

-----------------------------------------------------------------------------
(* AuditLogger *)

\* JSON.stringify of an object: the text of its defined properties, an undefined
\* one being left out
JSONstringify(object) == [json |-> object]

\* new Date()
Now == "new Date()"

InsertError == "MongoError"

\* { _id: user._id, name: user.profile.name, emails: user.emails, isAdmin: user.isAdmin }
\* of a user that was found and has a profile
ActorSnapshot(user) ==
  [_id |-> user._id]
    @@ (IF Has(user.profile, "name") THEN ("name" :> user.profile.name) ELSE Empty)
    @@ (IF Has(user, "emails") THEN ("emails" :> user.emails) ELSE Empty)
    @@ (IF Has(user, "isAdmin") THEN ("isAdmin" :> user.isAdmin) ELSE Empty)

\* the transaction built after the user lookup: user._id of an undefined user and
\* user.profile.name of a user without profile are TypeErrors
BuildTransaction(found, name, args) ==
  IF found = {} \/ \E user \in found : ~Has(user, "profile")
    THEN [threw |-> TypeError]
    ELSE [threw |-> "no",
          transaction |->
            [user |-> JSONstringify(ActorSnapshot(CHOOSE user \in found : TRUE)),
             method |-> name,
             args |-> JSONstringify(args),
             timestamp |-> Now]]

-----------------------------------------------------------------------------
(* SpecAudit: methods wrapped by transactionLogMixin, one invocation at a     *)
(* time, step by step                                                        *)

\* invocations end when the collection holds this many records
MaxTransactions == 2

AuditUserDocs(id) ==
  { [_id |-> id] @@ pro @@ ema @@ adm :
      pro \in Optional("profile", {[name |-> "Ann"]}),
      ema \in Optional("emails", {<<"ann@example.org">>}),
      adm \in Optional("isAdmin", {TRUE}) }

AuditUserCollections ==
  { a \cup b :
      a \in {{}} \cup { {d} : d \in AuditUserDocs(U1) },
      b \in {{}, {[_id |-> U2, profile |-> [name |-> "Bob"]]}} }

EnableTransactions ==
  {{}} \cup { {[name |-> "enableTransactions", value |-> v]} : v \in BOOLEAN }

MethodNames == {"upsertWeek", "deleteProject"}
MethodArgs == {[projectId |-> P1], Empty}

InitAudit ==
  /\ Projects = {}
  /\ userId = Null
  /\ users \in AuditUserCollections
  /\ Globalsettings \in EnableTransactions
  /\ ret = [op |-> "none"]
  /\ request = NoRequest
  /\ method = NoMethod
  /\ Transactions = <<>>

\* methodOptions.run(args) is called: it awaits getGlobalSettingAsync
AuditInvoke ==
  /\ method.pc = "idle"
  /\ Len(Transactions) < MaxTransactions
  /\ \E context \in Contexts, name \in MethodNames, args \in MethodArgs :
       method' = [pc |-> "awaitSetting", mixin |-> "transactionLogMixin",
                  context |-> context, name |-> name, args |-> args,
                  before |-> Len(Transactions), body |-> "notStarted",
                  events |-> <<"setting:start">>]
  /\ UNCHANGED <<Projects, users, Globalsettings, userId, ret, request, Transactions>>

\* the setting resolves: truthy, the user lookup is awaited; falsy, runFunc is called
SettingResolves ==
  /\ method.pc = "awaitSetting"
  /\ IF getGlobalSettingAsync("enableTransactions") = TRUE
       THEN method' = [method EXCEPT !.pc = "awaitUser",
                                     !.events = Append(@, "setting:true")]
       ELSE method' = [method EXCEPT !.pc = "running", !.body = "running",
                                     !.events = @ \o <<"setting:false", "body:start">>]
  /\ UNCHANGED <<Projects, users, Globalsettings, userId, ret, request, Transactions>>

\* the user lookup resolves: the transaction is built and inserted, then runFunc is
\* called; a TypeError or a failed insert leaves the wrapper at once
UserResolves ==
  /\ method.pc = "awaitUser"
  /\ LET built == BuildTransaction(FindUser(method.context.userId),
                                   method.name, method.args) IN
       \E insertOk \in BOOLEAN :
         IF built.threw # "no"
           THEN /\ method' = [method EXCEPT !.pc = "rejected",
                                !.events = Append(@, "audit:threw")]
                                @@ ("error" :> built.threw)
                /\ UNCHANGED Transactions
           ELSE IF ~insertOk
             THEN /\ method' = [method EXCEPT !.pc = "rejected",
                                  !.events = Append(@, "insert:threw")]
                                  @@ ("error" :> InsertError)
                  /\ UNCHANGED Transactions
             ELSE /\ Transactions' = Append(Transactions, built.transaction)
                  /\ method' = [method EXCEPT !.pc = "running", !.body = "running",
                                  !.events = @ \o <<"insert", "body:start">>]
  /\ UNCHANGED <<Projects, users, Globalsettings, userId, ret, request>>

\* the wrapped body returns, and with it the wrapper
BodyReturns ==
  /\ method.pc = "running"
  /\ method' = [method EXCEPT !.pc = "returned", !.body = "done",
                              !.events = Append(@, "body:end")]
  /\ UNCHANGED <<Projects, users, Globalsettings, userId, ret, request, Transactions>>

\* the caller has its result or its error; the next invocation may come
AuditSettle ==
  /\ method.pc \in {"returned", "rejected"}
  /\ method' = NoMethod
  /\ UNCHANGED <<Projects, users, Globalsettings, userId, ret, request, Transactions>>

NextAudit ==
  \/ AuditInvoke
  \/ SettingResolves
  \/ UserResolves
  \/ BodyReturns
  \/ AuditSettle

SpecAudit == InitAudit /\ [][NextAudit]_vars

-----------------------------------------------------------------------------
(* C14, C15 *)

Audited(m) == Started(m) /\ m.mixin = "transactionLogMixin"
Enabled == getGlobalSettingAsync("enableTransactions") = TRUE
Ended(m) == m.pc \in {"returned", "rejected"}
InsertedBy(m) == Len(Transactions) - m.before

\* the record the invocation m is to leave: the actor's snapshot, the method name,
\* the serialized arguments and a timestamp
RecordOf(m, record) ==
  /\ \E u \in users :
       /\ u._id = m.context.userId
       /\ record.user.json._id = u._id
       /\ \A f \in {"emails", "isAdmin"} :
            Has(u, f) => Has(record.user.json, f) /\ record.user.json[f] = u[f]
       /\ Has(u, "profile") /\ record.user.json.name = u.profile.name
  /\ record.method = m.name
  /\ record.args = JSONstringify(m.args)
  /\ record.timestamp = Now

\* C14: in an invocation of a method wrapped by transactionLogMixin, with
\* enableTransactions true exactly one Transaction record (actor snapshot, method
\* name, serialized args, timestamp) is inserted, and it is inserted before the body
\* starts; with the setting false or missing no record is inserted and the body runs.
C14_OneRecordBeforeBody ==
  Audited(method) =>
    IF Enabled
      THEN /\ InsertedBy(method) <= 1
           /\ \A i \in EventAt(method, "body:start") :
                /\ \E j \in EventAt(method, "insert") : j < i
                /\ InsertedBy(method) = 1
                /\ RecordOf(method, Transactions[Len(Transactions)])
           /\ Ended(method) => InsertedBy(method) = 1
      ELSE /\ InsertedBy(method) = 0
           /\ Ended(method) => method.body = "done"

\* C15: with enableTransactions true, a failure while the audit record is built or
\* inserted (no user found, a user without profile, a failed insert) does not reach
\* the caller, and the body has run in every invocation that has ended.
C15_AuditFailureDoesNotBlock ==
  (Audited(method) /\ Enabled /\ Ended(method)) =>
    /\ method.pc = "returned"
    /\ ~Has(method, "error")
    /\ method.body = "done"

-----------------------------------------------------------------------------
(* C16 *)

\* C16: a call of buildDetailedTimeEntriesForPeriodSelector leaves the caller's
\* request as it was handed in, every key and value of its filters map included, so
\* that a second call with the same request object sees the same filters.
C16_RequestLeftUnchanged ==
  ret.op = "buildDetailedTimeEntriesForPeriodSelector" =>
    /\ request = ret.args
    /\ Has(ret.args, "filters") =>
         \A key \in DOMAIN ret.args.filters :
           Has(request.filters, key) /\ request.filters[key] = ret.args.filters[key]

-----------------------------------------------------------------------------
(* Week table: the save handler *)

\* hours are carried in sixtieths of an hour, so that `hours /= 60` stays an integer
SixtiethsPerHour == 60

\* getUserSetting('hoursToDays')
HoursToDays == 8

\* Number(value), then the two conversions by getUserSetting('timeunit')
ConvertedHours(value, timeunit) ==
  LET hours == ToNumber(value) * SixtiethsPerHour
      inDays == IF timeunit = "d" THEN hours * HoursToDays ELSE hours
  IN IF timeunit = "m" THEN inDays \div SixtiethsPerHour ELSE inDays

\* data('task') of the input if it has one, else the value of the row's new-task input
TaskOf(element) ==
  IF Truthy(element.task) THEN element.task ELSE element.newTaskInput

\* startDate.add(Number(data('week-day')), 'day'), as a day number
DateOf(element, startDate) == startDate + element.weekDay

\* the comparison of the dates forgotten
MutSameEntry(arrayElement, projectId, task, date) ==
  /\ arrayElement.projectId = projectId
  /\ arrayElement.task = task

\* arrayElement.projectId === projectId && arrayElement.task === task
\*   && dayjs(arrayElement.date).isSame(dayjs(date))
SameEntry(arrayElement, projectId, task, date) ==
  /\ arrayElement.projectId = projectId
  /\ arrayElement.task = task
  /\ arrayElement.date = date

\* weekArray.findIndex(...): the first index (from 0) that matches, or -1
FindIndex(weekArray, projectId, task, date) ==
  LET hits == { k \in DOMAIN weekArray : SameEntry(weekArray[k], projectId, task, date) }
  IN IF hits = {} THEN -1
     ELSE (CHOOSE k \in hits : \A other \in hits : k <= other) - 1

\* $('.js-hours').each(...) from the element at index on; `return` in the callback
\* goes on with the next element
RECURSIVE EachHours(_, _, _, _, _, _)
EachHours(elements, index, startDate, timeunit, weekArray, inputError) ==
  IF index > Len(elements) THEN [weekArray |-> weekArray, inputError |-> inputError]
  ELSE
    LET element == elements[index]
        value == element.value
        task == TaskOf(element)
        hours == ConvertedHours(value, timeunit)
        projectId == element.projectId
        date == DateOf(element, startDate)
        existingElement == FindIndex(weekArray, projectId, task, date)
    IN IF ~Truthy(value)
         THEN EachHours(elements, index + 1, startDate, timeunit, weekArray, inputError)
       ELSE IF ~Truthy(task)
         THEN EachHours(elements, index + 1, startDate, timeunit, weekArray, TRUE)
       ELSE IF existingElement >= 0
         THEN EachHours(elements, index + 1, startDate, timeunit,
                        [weekArray EXCEPT ![existingElement + 1].hours = @ + hours],
                        inputError)
         ELSE EachHours(elements, index + 1, startDate, timeunit,
                        Append(weekArray, [projectId |-> projectId, task |-> task,
                                           date |-> date, hours |-> hours]),
                        inputError)

\* the handler of 'click .js-save': the batch it builds and the calls of upsertWeek
\* it makes
clickSave(elements, startDate, timeunit) ==
  LET each == EachHours(elements, 1, startDate, timeunit, << >>, FALSE)
  IN [weekArray |-> each.weekArray,
      inputError |-> each.inputError,
      upsertWeek |-> IF Len(each.weekArray) > 0 /\ ~each.inputError
                       THEN << each.weekArray >>
                       ELSE << >>]

-----------------------------------------------------------------------------
(* SpecWeek: the week table with its hour inputs drawn at the start, saved *)

\* most hour inputs in the table
MaxInputs == 3

Dev == <<"d", "e", "v">>
Ops == <<"o", "p", "s">>

\* an input: its value, its data-task, the new-task input of its row, its project
\* and its week day; an input left empty is in a row without task
HourInputs ==
  { [value |-> v, task |-> t[1], newTaskInput |-> t[2],
     projectId |-> c[1], weekDay |-> c[2]] :
      v \in {<<"1">>, <<"2">>},
      t \in {<<Dev, Null>>, <<Null, Ops>>, <<Null, Null>>},
      c \in {<<P1, 0>>, <<P1, 1>>, <<P2, 0>>} }
    \cup { [value |-> Null, task |-> Null, newTaskInput |-> Null,
            projectId |-> P1, weekDay |-> 0] }

Timeunits == {"h", "d", "m"}

WeekStart == 14

InitWeek ==
  /\ Projects = {}
  /\ userId = U1
  /\ users = {}
  /\ Globalsettings = {}
  /\ ret = [op |-> "none"]
  /\ \E e \in ArraysOf(HourInputs, MaxInputs), u \in Timeunits :
       request = [elements |-> e, timeunit |-> u, startDate |-> WeekStart]
  /\ method = NoMethod
  /\ Transactions = <<>>

ClickSave ==
  /\ ret' = [op |-> "click .js-save"]
              @@ clickSave(request.elements, request.startDate, request.timeunit)
  /\ UNCHANGED <<Projects, users, Globalsettings, userId, request, method, Transactions>>

NextWeek == ClickSave

SpecWeek == InitWeek /\ [][NextWeek]_vars

-----------------------------------------------------------------------------
(* C17 *)

Filled == { i \in DOMAIN request.elements : request.elements[i].value # Null }
LackingTask == { i \in Filled : TaskOf(request.elements[i]) = Null }
TripleOfInput(i) ==
  << request.elements[i].projectId, TaskOf(request.elements[i]),
     request.startDate + request.elements[i].weekDay >>
TripleOfEntry(entry) == << entry.projectId, entry.task, entry.date >>

RECURSIVE SumOfInputs(_)
SumOfInputs(inputs) ==
  IF inputs = {} THEN 0
  ELSE LET i == CHOOSE i \in inputs : TRUE
       IN ConvertedHours(request.elements[i].value, request.timeunit)
            + SumOfInputs(inputs \ {i})

\* C17: the batch the save handler builds holds at most one element for each
\* (projectId, task, date), whose hours are the sum of the converted hours of all
\* filled inputs of that triple, and upsertWeek is called with it only if it is not
\* empty and no filled input lacks a task.
C17_BatchMergedAndGuarded ==
  ret.op = "click .js-save" =>
    /\ \A k, l \in DOMAIN ret.weekArray :
         TripleOfEntry(ret.weekArray[k]) = TripleOfEntry(ret.weekArray[l]) => k = l
    /\ \A k \in DOMAIN ret.weekArray :
         ret.weekArray[k].hours =
           SumOfInputs({ i \in Filled \ LackingTask :
                           TripleOfInput(i) = TripleOfEntry(ret.weekArray[k]) })
    /\ \A i \in Filled \ LackingTask :
         \E k \in DOMAIN ret.weekArray : TripleOfEntry(ret.weekArray[k]) = TripleOfInput(i)
    /\ \A call \in DOMAIN ret.upsertWeek :
         /\ ret.upsertWeek[call] = ret.weekArray
         /\ Len(ret.weekArray) > 0
         /\ LackingTask = {}

\* three filled inputs, two of one triple, in days: a batch of two is sent
C17_Witness ==
  /\ ret.op = "click .js-save"
  /\ request.timeunit = "d"
  /\ Cardinality(Filled) = 3
  /\ Len(ret.upsertWeek) = 1
  /\ Len(ret.upsertWeek[1]) = 2
  /\ \E k \in DOMAIN ret.weekArray : ret.weekArray[k].hours = 3 * HoursToDays * SixtiethsPerHour

\* a filled input without task among inputs with one: a batch is built, none is sent
C17_WitnessBlocked ==
  /\ ret.op = "click .js-save"
  /\ LackingTask # {}
  /\ Len(ret.weekArray) > 0
  /\ ret.upsertWeek = << >>

====
